---- MODULE Spec2Model ----
(***************************************************************************)
(* Model of the task store of task_manager.py: the Task record, the        *)
(* TaskManager collection with its CRUD operations and queries, and the    *)
(* JSON backing file written by save_tasks and read by load_tasks.         *)
(*                                                                         *)
(* A Task object is a record of its seven attributes, of `addr`, the       *)
(* identity of the Python object (what id(self) returns and what           *)
(* list.remove compares), and of `to_dict`, which is the bound method      *)
(* unless setattr has shadowed it with an instance attribute.              *)
(* Text (title, description) is a sequence of one-character strings.       *)
(*                                                                         *)
(* `held` is what the caller holds from its latest query: nothing, the     *)
(* list object self.tasks itself, a list built by the query (the           *)
(* identities of its elements), or the statistics dict.                    *)
(***************************************************************************)
EXTENDS Integers, Sequences, FiniteSets

VARIABLES tasks, file, mgr, ret, calls, held

vars == <<tasks, file, mgr, ret, calls, held>>

----------------------------------------------------------------------------
(* Bounds of the model *)

MaxTasks == 2
MaxAddr == 3
MaxCalls == 3

----------------------------------------------------------------------------
(* Values *)

\* Python's None, where an integer id is expected
None == 0

\* object identities: the values id(self) can return
Addr == 1..MaxAddr

\* datetime.now().strftime(...) during the n-th call of a session: the clock
\* has moved on by a second or more between two calls
Now(n) == <<"2024-01-01 10:00:00", n>>

\* a timestamp older than the session
Old == <<"2023-12-31 10:00:00", 0>>

Empty == <<>>
BuyMilk == <<"B", "u", "y", " ", "m", "i", "l", "k">>
WalkDog == <<"W", "a", "l", "k", " ", "d", "o", "g">>
Milk == <<"M", "I", "L", "K">>

\* the bound method Task.to_dict, as the value of the attribute to_dict
Method == "<bound method>"

\* a JSON value that is not an object has no members
NoMembers == [k \in {} |-> 0]

\* the arguments add_task is called with (title, description, priority,
\* due_date), the defaults of its signature filled in
AddArgs ==
    { [title |-> BuyMilk, description |-> Empty, priority |-> "Medium", due_date |-> ""],
      [title |-> WalkDog, description |-> Milk, priority |-> "High", due_date |-> "2024-02-01"] }

\* the keyword arguments update_task is called with
Kwargs ==
    { [title |-> WalkDog, priority |-> "urgent"],
      [description |-> Milk, due_date |-> "2024-02-01"],
      [id |-> 1, created_at |-> Old],
      [id |-> None],
      [to_dict |-> "x"],
      [completed |-> TRUE, nosuch |-> "x"] }

\* the task_id arguments of get, update, delete, complete and uncomplete
TaskIds == Addr \cup {None}

----------------------------------------------------------------------------
(* Task *)

\* Task.__init__ on the object at self_addr, at time now
Task(self_addr, title, description, priority, due_date, task_id, now) ==
    [ addr |-> self_addr,
      id |-> IF task_id # None THEN task_id ELSE self_addr,
      title |-> title,
      description |-> description,
      priority |-> priority,
      due_date |-> due_date,
      completed |-> FALSE,
      created_at |-> now,
      to_dict |-> Method ]

\* the dictionary task.to_dict() returns (when to_dict is still the method)
to_dict(task) ==
    [ id |-> task.id,
      title |-> task.title,
      description |-> task.description,
      priority |-> task.priority,
      due_date |-> task.due_date,
      completed |-> task.completed,
      created_at |-> task.created_at ]

\* dict.get(key, default)
Get(data, key, default) == IF key \in DOMAIN data THEN data[key] ELSE default

\* from_dict without its line 47: completed is left as __init__ set it
from_dict_not_completed(data, self_addr, now) ==
    LET task == Task(self_addr,
                     data.title,
                     Get(data, "description", Empty),
                     Get(data, "priority", "Medium"),
                     Get(data, "due_date", ""),
                     Get(data, "id", None),
                     now)
    IN [task EXCEPT !.created_at = Get(data, "created_at", now)]

\* Task.from_dict(data), for data with a title, building the object at self_addr
from_dict(data, self_addr, now) ==
    LET task == Task(self_addr,
                     data.title,
                     Get(data, "description", Empty),
                     Get(data, "priority", "Medium"),
                     Get(data, "due_date", ""),
                     Get(data, "id", None),
                     now)
    IN [task EXCEPT !.completed = Get(data, "completed", FALSE),
                    !.created_at = Get(data, "created_at", now)]

----------------------------------------------------------------------------
(* The backing file *)

\* what json.dump writes for a list of dictionaries
JsonArray(dicts) ==
    [ kind |-> "array",
      items |-> [i \in 1..Len(dicts) |-> [type |-> "object", members |-> dicts[i]]] ]

\* the file a complete save of ts leaves
Serialize(ts) == JsonArray([i \in 1..Len(ts) |-> to_dict(ts[i])])

\* a file opened for writing and not written to the end: not parseable
Truncated == [kind |-> "garbage", items |-> <<>>]

\* the outcomes of opening and writing the file
IO == {"ok", "open fails", "write fails"}

\* save_tasks leaving the last record of the collection out of the file
save_tasks_short(ts, f, io) ==
    IF \E i \in 1..Len(ts) : ts[i].to_dict # Method
    THEN [status |-> "raised", exc |-> "TypeError", file |-> f]
    ELSE IF io = "open fails"
    THEN [status |-> "raised", exc |-> "OSError", file |-> f]
    ELSE IF io = "write fails"
    THEN [status |-> "raised", exc |-> "OSError", file |-> Truncated]
    ELSE [status |-> "returned", exc |-> "", file |-> Serialize(SubSeq(ts, 1, Len(ts) - 1))]

\* TaskManager.save_tasks: the status of the call and the file it leaves
save_tasks(ts, f, io) ==
    IF \E i \in 1..Len(ts) : ts[i].to_dict # Method
    THEN [status |-> "raised", exc |-> "TypeError", file |-> f]
    ELSE IF io = "open fails"
    THEN [status |-> "raised", exc |-> "OSError", file |-> f]
    ELSE IF io = "write fails"
    THEN [status |-> "raised", exc |-> "OSError", file |-> Truncated]
    ELSE [status |-> "returned", exc |-> "", file |-> Serialize(ts)]

\* the index of the first element of the parsed data on which from_dict
\* raises, or 0
FirstBad(items) ==
    LET bad == { i \in 1..Len(items) :
                   \/ items[i].type # "object"
                   \/ "title" \notin DOMAIN items[i].members }
    IN IF bad = {} THEN 0 ELSE CHOOSE i \in bad : \A j \in bad : i <= j

\* TaskManager.load_tasks: the status of the call and the collection it
\* leaves; addrs[i] is the identity of the i-th Task object it builds
load_tasks(f, addrs, now) ==
    IF f.kind = "missing"
    THEN [status |-> "returned", exc |-> "", tasks |-> <<>>]
    ELSE IF f.kind = "garbage"
    THEN [status |-> "returned", exc |-> "", tasks |-> <<>>]
    ELSE IF f.kind = "number"
    THEN [status |-> "raised", exc |-> "TypeError", tasks |-> <<>>]
    ELSE LET bad == FirstBad(f.items)
         IN IF bad = 0
            THEN [ status |-> "returned", exc |-> "",
                   tasks |-> [i \in 1..Len(f.items) |->
                                from_dict(f.items[i].members, addrs[i], now)] ]
            ELSE IF f.items[bad].type # "object"
            THEN [status |-> "raised", exc |-> "TypeError", tasks |-> <<>>]
            ELSE [status |-> "returned", exc |-> "", tasks |-> <<>>]

----------------------------------------------------------------------------
(* TaskManager *)

\* get_task falling back to the first Task when no id matches
get_task_first(ts, task_id) ==
    LET hits == { i \in 1..Len(ts) : ts[i].id = task_id }
    IN IF hits = {} THEN (IF Len(ts) > 0 THEN 1 ELSE 0)
       ELSE CHOOSE i \in hits : \A j \in hits : i <= j

\* the index in ts of the Task get_task(task_id) returns, 0 when it returns None
get_task(ts, task_id) ==
    LET hits == { i \in 1..Len(ts) : ts[i].id = task_id }
    IN IF hits = {} THEN 0 ELSE CHOOSE i \in hits : \A j \in hits : i <= j

\* hasattr(task, key), for the keys of Kwargs: the instance attributes and
\* the method to_dict
hasattr(task, key) == key \in DOMAIN task \ {"addr"}

\* the loop of update_task, lines 85-87: setattr for every key the task has
setattrs(task, kwargs) ==
    [ a \in DOMAIN task |->
        IF a \in DOMAIN kwargs /\ hasattr(task, a) THEN kwargs[a] ELSE task[a] ]

\* list.remove(task): drops the first element that is the object `task`
remove(ts, task) ==
    LET k == CHOOSE i \in 1..Len(ts) :
                 /\ ts[i].addr = task.addr
                 /\ \A j \in 1..(i - 1) : ts[j].addr # task.addr
    IN [ i \in 1..(Len(ts) - 1) |-> IF i < k THEN ts[i] ELSE ts[i + 1] ]

\* get_all_tasks(include_completed)
get_all_tasks(ts, include_completed) ==
    IF include_completed THEN ts ELSE SelectSeq(ts, LAMBDA task : ~task.completed)

\* the identities of the Task objects the store holds
LiveAddrs(ts) == { ts[i].addr : i \in 1..Len(ts) }

\* the caller holds no query result
NoHeld == [kind |-> "none", list |-> <<>>]

\* the identities of the Task objects kept alive by a list the caller holds
HeldAddrs(h) ==
    IF h.kind = "list" THEN { h.list[i] : i \in 1..Len(h.list) } ELSE {}

\* the ways to place n new objects in memory
Placements(n) ==
    { a \in [1..n -> Addr] : \A i, j \in 1..n : i # j => a[i] # a[j] }

\* the number of Task objects load_tasks builds from f
Builds(f) == IF f.kind \in {"array", "object"} /\ FirstBad(f.items) = 0
             THEN Len(f.items) ELSE 0

\* one more call is made, within the length of the sessions explored
Call == calls < MaxCalls /\ calls' = calls + 1

\* what the caller of an operation sees: the operation and its arguments,
\* whether it returned or raised, the boolean returned (for add_task and
\* get_task: whether a Task was returned) and the identity of that Task
Result(op, args, status, exc, val, obj) ==
    [op |-> op, args |-> args, status |-> status, exc |-> exc, val |-> val, obj |-> obj]

\* the end of a mutating operation: save_tasks, then return val
SaveAndReturn(op, args, ts, io, val, obj) ==
    LET s == save_tasks(ts, file, io)
    IN /\ tasks' = ts
       /\ file' = s.file
       /\ ret' = IF s.status = "returned"
                 THEN Result(op, args, "returned", "", val, obj)
                 ELSE Result(op, args, "raised", s.exc, FALSE, None)
       /\ UNCHANGED <<mgr, held>>

\* a return that changes nothing
ReturnOnly(op, args, val, obj) ==
    /\ ret' = Result(op, args, "returned", "", val, obj)
    /\ UNCHANGED <<tasks, file, mgr, held>>

\* TaskManager.__init__: the program starts and a store is constructed on
\* the backing file; nothing of an earlier run is held
TaskManager(addrs, now) ==
    LET l == load_tasks(file, addrs, now)
    IN /\ Call
       /\ tasks' = l.tasks
       /\ mgr' = IF l.status = "returned" THEN "ready" ELSE "none"
       /\ ret' = Result("TaskManager", [filename |-> "tasks.json"],
                        l.status, l.exc, l.status = "returned", None)
       /\ held' = NoHeld
       /\ UNCHANGED file

\* add_task putting the new record in front of the collection
add_task_in_front(args, self_addr, now, io) ==
    /\ mgr = "ready"
    /\ Call
    /\ Len(tasks) < MaxTasks
    /\ self_addr \notin LiveAddrs(tasks) \cup HeldAddrs(held)
    /\ LET task == Task(self_addr, args.title, args.description, args.priority,
                        args.due_date, None, now)
       IN SaveAndReturn("add_task", args, <<task>> \o tasks, io, TRUE, self_addr)

add_task(args, self_addr, now, io) ==
    /\ mgr = "ready"
    /\ Call
    /\ Len(tasks) < MaxTasks
    /\ self_addr \notin LiveAddrs(tasks) \cup HeldAddrs(held)
    /\ LET task == Task(self_addr, args.title, args.description, args.priority,
                        args.due_date, None, now)
       IN SaveAndReturn("add_task", args, Append(tasks, task), io, TRUE, self_addr)

call_get_task(task_id) ==
    /\ mgr = "ready"
    /\ Call
    /\ LET i == get_task(tasks, task_id)
       IN ReturnOnly("get_task", [task_id |-> task_id], i # 0,
                     IF i # 0 THEN tasks[i].addr ELSE None)

update_task(task_id, kwargs, io) ==
    /\ mgr = "ready"
    /\ Call
    /\ LET i == get_task(tasks, task_id)
           args == [task_id |-> task_id, kwargs |-> kwargs]
       IN IF i = 0
          THEN ReturnOnly("update_task", args, FALSE, None)
          ELSE SaveAndReturn("update_task", args,
                             [tasks EXCEPT ![i] = setattrs(tasks[i], kwargs)],
                             io, TRUE, None)

delete_task(task_id, io) ==
    /\ mgr = "ready"
    /\ Call
    /\ LET i == get_task(tasks, task_id)
           args == [task_id |-> task_id]
       IN IF i # 0
          THEN SaveAndReturn("delete_task", args, remove(tasks, tasks[i]), io, TRUE, None)
          ELSE ReturnOnly("delete_task", args, FALSE, None)

complete_task(task_id, io) ==
    /\ mgr = "ready"
    /\ Call
    /\ LET i == get_task(tasks, task_id)
           args == [task_id |-> task_id]
       IN IF i # 0
          THEN SaveAndReturn("complete_task", args,
                             [tasks EXCEPT ![i].completed = TRUE], io, TRUE, None)
          ELSE ReturnOnly("complete_task", args, FALSE, None)

uncomplete_task(task_id, io) ==
    /\ mgr = "ready"
    /\ Call
    /\ LET i == get_task(tasks, task_id)
           args == [task_id |-> task_id]
       IN IF i # 0
          THEN SaveAndReturn("uncomplete_task", args,
                             [tasks EXCEPT ![i].completed = FALSE], io, TRUE, None)
          ELSE ReturnOnly("uncomplete_task", args, FALSE, None)

----------------------------------------------------------------------------
(* The contents the backing file can have when the program starts *)

FullRecord ==
    [ id |-> 1, title |-> BuyMilk, description |-> Milk, priority |-> "Low",
      due_date |-> "2024-02-01", completed |-> TRUE,
      created_at |-> Old ]

Object(members) == [type |-> "object", members |-> members]
Number == [type |-> "number", members |-> NoMembers]
String == [type |-> "string", members |-> NoMembers]

InitialFiles ==
    { [kind |-> "missing", items |-> <<>>],
      [kind |-> "garbage", items |-> <<>>],
      [kind |-> "number", items |-> <<>>],
      [kind |-> "object", items |-> <<String>>],
      [kind |-> "array", items |-> <<Number>>],
      [kind |-> "array", items |-> <<Object([description |-> Milk])>>],
      [kind |-> "array", items |-> <<Object([title |-> WalkDog]), String>>],
      [kind |-> "array", items |-> <<Object([title |-> WalkDog])>>],
      [kind |-> "array", items |-> <<Object(FullRecord)>>],
      [kind |-> "array", items |-> <<Object([title |-> BuyMilk, id |-> 2]),
                                     Object([title |-> WalkDog, completed |-> TRUE])>>] }

----------------------------------------------------------------------------
(* The program *)

NoCall == Result("", [filename |-> "tasks.json"], "returned", "", FALSE, None)

Init ==
    /\ file \in InitialFiles
    /\ tasks = <<>>
    /\ mgr = "none"
    /\ ret = NoCall
    /\ calls = 0
    /\ held = NoHeld

Next ==
    \/ \E addrs \in Placements(Builds(file)) : TaskManager(addrs, Now(calls))
    \/ \E args \in AddArgs, a \in Addr, io \in IO : add_task(args, a, Now(calls), io)
    \/ \E task_id \in TaskIds : call_get_task(task_id)
    \/ \E task_id \in TaskIds, kwargs \in Kwargs, io \in IO : update_task(task_id, kwargs, io)
    \/ \E task_id \in TaskIds, io \in IO : delete_task(task_id, io)
    \/ \E task_id \in TaskIds, io \in IO : complete_task(task_id, io)
    \/ \E task_id \in TaskIds, io \in IO : uncomplete_task(task_id, io)

Spec == Init /\ [][Next]_vars

----------------------------------------------------------------------------
(* Properties *)

Mutators == {"add_task", "update_task", "delete_task", "complete_task", "uncomplete_task"}

\* the last call returned a success value: the Task, or True
Succeeded == ret.op \in Mutators /\ ret.status = "returned" /\ ret.val

IdsDistinct(ts) == \A i, j \in 1..Len(ts) : i # j => ts[i].id # ts[j].id

Held(ts, task_id) == \E i \in 1..Len(ts) : ts[i].id = task_id

\* the position in ts of the object with identity a, 0 if it is not in ts
IndexOf(ts, a) ==
    IF \E i \in 1..Len(ts) : ts[i].addr = a
    THEN CHOOSE i \in 1..Len(ts) : ts[i].addr = a
    ELSE 0

\* C1: from a store whose ids are pairwise distinct, every add, update,
\* delete, complete and uncomplete leaves the ids pairwise distinct.
C1_IdsStayDistinct ==
    [][(ret'.op \in Mutators /\ IdsDistinct(tasks)) => IdsDistinct(tasks')]_vars

\* C2: after every add, update, delete, complete or uncomplete that reports
\* success, the backing file holds exactly the serialization of the whole
\* collection in memory.
C2_FileSynchronized == Succeeded => file = Serialize(tasks)

\* C2 witness: a successful mutation of a store that holds two records
C2_Witness ==
    /\ Succeeded
    /\ ret.op = "update_task"
    /\ Len(tasks) = 2
    /\ file = Serialize(tasks)

\* C3: a store constructed on the file to which a collection was persisted
\* holds a collection of the same length and order, every record equal to
\* the original in all seven fields.
C3_RoundTrip ==
    [][(ret'.op = "TaskManager" /\ mgr = "ready" /\ file = Serialize(tasks))
        => /\ ret'.status = "returned"
           /\ Len(tasks') = Len(tasks)
           /\ \A i \in 1..Len(tasks) : to_dict(tasks'[i]) = to_dict(tasks[i])]_vars

\* C4: add followed by get(returned id) returns the record add created, with
\* the title, description, priority and due_date of the call, completed false
\* and the returned id.
C4_AddThenGet ==
    (ret.op = "add_task" /\ ret.status = "returned")
    => LET made == tasks[IndexOf(tasks, ret.obj)]
           i == get_task(tasks, made.id)
       IN /\ i # 0
          /\ tasks[i].addr = ret.obj
          /\ tasks[i].id = made.id
          /\ tasks[i].title = ret.args.title
          /\ tasks[i].description = ret.args.description
          /\ tasks[i].priority = ret.args.priority
          /\ tasks[i].due_date = ret.args.due_date
          /\ tasks[i].completed = FALSE

UpdatableFields == {"title", "description", "priority", "due_date"}

Fields == {"id", "title", "description", "priority", "due_date", "completed", "created_at"}

\* C5: update returns false when no record has the id; otherwise it returns
\* true, every supplied field among title, description, priority, due_date
\* takes the supplied value on the matching record, every field not named
\* keeps its value, and every other record is unchanged.
C5_Update ==
    [][ret'.op = "update_task"
        => LET task_id == ret'.args.task_id
               kwargs == ret'.args.kwargs
               m == IF Held(tasks, task_id)
                    THEN CHOOSE i \in 1..Len(tasks) :
                           /\ tasks[i].id = task_id
                           /\ \A j \in 1..(i - 1) : tasks[j].id # task_id
                    ELSE 0
           IN IF m = 0
              THEN ret'.status = "returned" /\ ~ret'.val
              ELSE /\ ret'.status = "returned" /\ ret'.val
                   /\ Len(tasks') = Len(tasks)
                   /\ \A a \in UpdatableFields \cap DOMAIN kwargs : tasks'[m][a] = kwargs[a]
                   /\ \A a \in Fields \ DOMAIN kwargs : tasks'[m][a] = tasks[m][a]
                   /\ \A i \in 1..Len(tasks) : i # m => tasks'[i] = tasks[i]]_vars

\* C6: update leaves the id and created_at of every record as they were,
\* whatever mapping the caller supplies.
C6_IdentityImmutable ==
    [][ret'.op = "update_task"
        => /\ Len(tasks') = Len(tasks)
           /\ \A i \in 1..Len(tasks) :
                /\ tasks'[i].id = tasks[i].id
                /\ tasks'[i].created_at = tasks[i].created_at]_vars

\* C7: delete(id) followed by get(id) reports not-found, whether or not
\* delete removed a record.
C7_DeleteThenGet ==
    ret.op = "delete_task" => get_task(tasks, ret.args.task_id) = 0

\* C8: when no held record has the given id, get returns None and update,
\* delete, complete and uncomplete return false, and the collection and the
\* backing file are as before the call.
C8_NotFoundNoEffect ==
    [][(/\ ret'.op \in {"get_task", "update_task", "delete_task",
                        "complete_task", "uncomplete_task"}
        /\ ~Held(tasks, ret'.args.task_id))
        => /\ ret'.status = "returned"
           /\ ~ret'.val
           /\ ret'.obj = None
           /\ tasks' = tasks
           /\ file' = file]_vars

\* C8 witness: delete of an id that a non-empty store does not hold, on a
\* file that is out of step with memory
C8_Witness ==
    /\ ret.op = "delete_task"
    /\ ret.status = "returned"
    /\ ~ret.val
    /\ Len(tasks) >= 1
    /\ ~Held(tasks, ret.args.task_id)
    /\ file # Serialize(tasks)

\* C9: after setCompleted(id, true) succeeds, listAll(false) holds no record
\* with that id and listAll(true) holds one; listAll(false) is the
\* subsequence of the records not completed and listAll(true) the whole
\* collection, both in insertion order.
C9_CompleteThenList ==
    /\ get_all_tasks(tasks, TRUE) = tasks
    /\ get_all_tasks(tasks, FALSE) = SelectSeq(tasks, LAMBDA t : t.completed = FALSE)
    /\ (ret.op = "complete_task" /\ ret.status = "returned" /\ ret.val)
       => /\ ~Held(get_all_tasks(tasks, FALSE), ret.args.task_id)
          /\ Held(get_all_tasks(tasks, TRUE), ret.args.task_id)

\* the file is not a sequence of field mappings that all carry a title
Malformed(f) ==
    \/ f.kind \in {"garbage", "number", "object"}
    \/ /\ f.kind = "array"
       /\ \E i \in 1..Len(f.items) :
            \/ f.items[i].type # "object"
            \/ "title" \notin DOMAIN f.items[i].members

\* C10: on a missing file and on every file that is not parseable, is not a
\* sequence of field mappings or holds a record without title, initialize
\* completes without raising and leaves an empty collection.
C10_LoadNeverFails ==
    (ret.op = "TaskManager" /\ (file.kind = "missing" \/ Malformed(file)))
    => /\ ret.status = "returned"
       /\ mgr = "ready"
       /\ tasks = <<>>

----------------------------------------------------------------------------
(* Loading: the files whose records all carry a title, with any set of the *)
(* other fields absent                                                     *)

OptionalFields == {"description", "priority", "due_date", "completed", "created_at"}

\* the dictionary rec without the keys in absent
Without(rec, absent) == [k \in DOMAIN rec \ absent |-> rec[k]]

\* the i-th record of a file, all seven fields present, none at its default
StoredRecord(i) == [FullRecord EXCEPT !.id = i]

\* files of n records, the same optional fields absent from all of them and
\* the id absent from those at the positions in noid
LoadFiles ==
    UNION { { [ kind |-> "array",
                items |-> [i \in 1..n |->
                             Object(Without(StoredRecord(i),
                                            absent \cup (IF i \in noid THEN {"id"} ELSE {})))] ]
              : absent \in SUBSET OptionalFields, noid \in SUBSET (1..n) }
            : n \in 1..MaxTasks }

InitLoad ==
    /\ file \in LoadFiles
    /\ tasks = <<>>
    /\ mgr = "none"
    /\ ret = NoCall
    /\ calls = 0
    /\ held = NoHeld

NextLoad == \E addrs \in Placements(Builds(file)) : TaskManager(addrs, Now(calls))

SpecLoad == InitLoad /\ [][NextLoad]_vars

\* every record of the file is a field mapping with a title
WellFormed(f) ==
    /\ f.kind = "array"
    /\ \A i \in 1..Len(f.items) :
         f.items[i].type = "object" /\ "title" \in DOMAIN f.items[i].members

\* the record of the file carries an id (null stands for no id, as None does
\* for task_id in Task.__init__)
HasId(members) == "id" \in DOMAIN members /\ members.id # None

\* C11: loading a parseable file whose records all carry title gives one
\* record per file record, in file order; every field present in the file is
\* taken verbatim and every absent field gets its default: description empty,
\* priority Medium, due_date empty, completed false, created_at the time of
\* the load.
C11_TolerantDefaults ==
    (ret.op = "TaskManager" /\ WellFormed(file))
    => /\ ret.status = "returned"
       /\ Len(tasks) = Len(file.items)
       /\ \A i \in 1..Len(tasks) :
            LET m == file.items[i].members
                t == tasks[i]
            IN /\ t.title = m.title
               /\ HasId(m) => t.id = m.id
               /\ t.description = (IF "description" \in DOMAIN m THEN m.description ELSE <<>>)
               /\ t.priority = (IF "priority" \in DOMAIN m THEN m.priority ELSE "Medium")
               /\ t.due_date = (IF "due_date" \in DOMAIN m THEN m.due_date ELSE "")
               /\ t.completed = (IF "completed" \in DOMAIN m THEN m.completed ELSE FALSE)
               /\ t.created_at = (IF "created_at" \in DOMAIN m THEN m.created_at
                                  ELSE Now(calls - 1))

\* C11 witness: two records loaded, completed and due_date taken from the
\* file, priority and created_at defaulted
C11_Witness ==
    /\ ret.op = "TaskManager"
    /\ Len(tasks) = 2
    /\ DOMAIN file.items[2].members = {"title", "id", "completed", "due_date"}
    /\ tasks[2].completed
    /\ tasks[2].priority = "Medium"
    /\ tasks[2].created_at = Now(calls - 1)

\* C12: when the ids present in the file are pairwise distinct, every record
\* that has an id keeps it and every record without one receives an id that
\* differs from the id of every other loaded record.
C12_LoadedIdsFresh ==
    (/\ ret.op = "TaskManager"
     /\ WellFormed(file)
     /\ \A i, j \in 1..Len(file.items) :
          (i # j /\ HasId(file.items[i].members) /\ HasId(file.items[j].members))
          => file.items[i].members.id # file.items[j].members.id)
    => /\ Len(tasks) = Len(file.items)
       /\ \A i \in 1..Len(tasks) :
            IF HasId(file.items[i].members)
            THEN tasks[i].id = file.items[i].members.id
            ELSE \A j \in 1..Len(tasks) : j # i => tasks[j].id # tasks[i].id

----------------------------------------------------------------------------
(* Queries *)

\* str.lower() on one character, for the letters the texts are made of
LowerChar(c) ==
    CASE c = "B" -> "b"
      [] c = "W" -> "w"
      [] c = "M" -> "m"
      [] c = "I" -> "i"
      [] c = "L" -> "l"
      [] c = "K" -> "k"
      [] c = "D" -> "d"
      [] c = "O" -> "o"
      [] c = "G" -> "g"
      [] OTHER -> c

\* str.lower()
lower(text) == [i \in 1..Len(text) |-> LowerChar(text[i])]

\* the operator `in` finding no occurrence of the empty string
In_nonempty(sub, text) ==
    /\ Len(sub) > 0
    /\ \E k \in 0..(Len(text) - Len(sub)) : SubSeq(text, k + 1, k + Len(sub)) = sub

\* the str operator `in`: sub occurs in text
In(sub, text) ==
    \E k \in 0..(Len(text) - Len(sub)) : SubSeq(text, k + 1, k + Len(sub)) = sub

\* search_tasks comparing the query as it was typed
search_tasks_query_as_typed(ts, query) ==
    SelectSeq(ts, LAMBDA task : In(query, lower(task.title))
                                \/ In(query, lower(task.description)))

\* TaskManager.search_tasks
search_tasks(ts, query) ==
    LET q == lower(query)
    IN SelectSeq(ts, LAMBDA task : In(q, lower(task.title))
                                   \/ In(q, lower(task.description)))

\* get_tasks_by_priority leaving out the completed records
get_tasks_by_priority_pending(ts, priority) ==
    SelectSeq(ts, LAMBDA task : task.priority = priority /\ ~task.completed)

\* TaskManager.get_tasks_by_priority
get_tasks_by_priority(ts, priority) ==
    SelectSeq(ts, LAMBDA task : task.priority = priority)

\* get_statistics counting the completed records in the priority buckets too
get_statistics_all(ts) ==
    LET total == Len(ts)
        completed == Len(SelectSeq(ts, LAMBDA task : task.completed))
        pending == total - completed
    IN [ total |-> total,
         completed |-> completed,
         pending |-> pending,
         priority_counts |->
           [ High |-> Len(SelectSeq(ts, LAMBDA task : task.priority = "High")),
             Medium |-> Len(SelectSeq(ts, LAMBDA task : task.priority = "Medium")),
             Low |-> Len(SelectSeq(ts, LAMBDA task : task.priority = "Low")) ] ]

\* get_statistics reporting every record as pending
get_statistics_pending_total(ts) ==
    LET total == Len(ts)
        completed == Len(SelectSeq(ts, LAMBDA task : task.completed))
        pending == total
    IN [ total |-> total,
         completed |-> completed,
         pending |-> pending,
         priority_counts |->
           [ High |-> Len(SelectSeq(ts, LAMBDA task :
                            task.priority = "High" /\ ~task.completed)),
             Medium |-> Len(SelectSeq(ts, LAMBDA task :
                            task.priority = "Medium" /\ ~task.completed)),
             Low |-> Len(SelectSeq(ts, LAMBDA task :
                            task.priority = "Low" /\ ~task.completed)) ] ]

\* TaskManager.get_statistics
get_statistics(ts) ==
    LET total == Len(ts)
        completed == Len(SelectSeq(ts, LAMBDA task : task.completed))
        pending == total - completed
    IN [ total |-> total,
         completed |-> completed,
         pending |-> pending,
         priority_counts |->
           [ High |-> Len(SelectSeq(ts, LAMBDA task :
                            task.priority = "High" /\ ~task.completed)),
             Medium |-> Len(SelectSeq(ts, LAMBDA task :
                            task.priority = "Medium" /\ ~task.completed)),
             Low |-> Len(SelectSeq(ts, LAMBDA task :
                            task.priority = "Low" /\ ~task.completed)) ] ]

\* the queries search_tasks is called with
Queries == { <<"m", "i", "l", "k">>, <<"D", "O", "G">>, <<"k", " ">>, <<"z">>, <<>> }

\* the priorities get_tasks_by_priority is called with
PriorityQueries == {"High", "high", "Medium", "Low", "urgent"}

----------------------------------------------------------------------------
(* Properties of the queries and of the single operations *)

\* the subsequence of ts at the positions in S, in the order of ts
SubseqAt(ts, S) ==
    [ k \in 1..Cardinality(S) |->
        ts[CHOOSE i \in S : Cardinality({ j \in S : j <= i }) = k] ]

\* C13: a write to the backing file that cannot complete is reported to the
\* caller of add, update, delete, complete or uncomplete as a failure result:
\* the call returns, and it returns success only when the file was written.
C13_WriteFailureSurfaced ==
    (ret.op \in Mutators /\ ret.exc # "TypeError")
    => /\ ret.status = "returned"
       /\ ret.val => file = Serialize(tasks)

\* C14: statistics gives total = number of records, completed and pending =
\* the numbers of records with completed true and false, and for each of
\* High, Medium, Low the number of records not completed with exactly that
\* priority; other priorities are in no bucket and an empty store gives 0
\* everywhere.
C14_Statistics ==
    LET s == get_statistics(tasks)
        Pending(p) == { i \in 1..Len(tasks) :
                          tasks[i].completed = FALSE /\ tasks[i].priority = p }
    IN /\ s.total = Len(tasks)
       /\ s.completed = Cardinality({ i \in 1..Len(tasks) : tasks[i].completed = TRUE })
       /\ s.pending = Cardinality({ i \in 1..Len(tasks) : tasks[i].completed = FALSE })
       /\ DOMAIN s.priority_counts = {"High", "Medium", "Low"}
       /\ \A p \in {"High", "Medium", "Low"} :
            s.priority_counts[p] = Cardinality(Pending(p))
       /\ tasks = <<>> =>
            s = [ total |-> 0, completed |-> 0, pending |-> 0,
                  priority_counts |-> [High |-> 0, Medium |-> 0, Low |-> 0] ]

\* C14 witness: a completed Low record and a pending record whose priority
\* is none of the three values
C14_Witness ==
    /\ mgr = "ready"
    /\ Len(tasks) = 2
    /\ \E i, j \in 1..2 :
         /\ tasks[i].completed /\ tasks[i].priority = "Low"
         /\ ~tasks[j].completed /\ tasks[j].priority = "urgent"
    /\ get_statistics(tasks).pending = 1
    /\ get_statistics(tasks).priority_counts = [High |-> 0, Medium |-> 0, Low |-> 0]

\* query occurs in text when letters are compared without regard to case
OccursIgnoringCase(query, text) ==
    \E off \in 0..(Len(text) - Len(query)) :
       \A j \in 1..Len(query) : LowerChar(query[j]) = LowerChar(text[off + j])

\* C15: search(query) returns exactly the records, in insertion order, whose
\* title or description contains query as a substring, compared
\* case-insensitively.
C15_Search ==
    \A query \in Queries :
       search_tasks(tasks, query) =
         SubseqAt(tasks, { i \in 1..Len(tasks) :
                             \/ OccursIgnoringCase(query, tasks[i].title)
                             \/ OccursIgnoringCase(query, tasks[i].description) })

\* C15 witness: over Walk dog and Buy milk, "milk" finds Buy milk alone and
\* "DOG" finds Walk dog
C15_Witness ==
    /\ mgr = "ready"
    /\ Len(tasks) = 2
    /\ tasks[1].title = WalkDog
    /\ tasks[2].title = BuyMilk
    /\ Len(search_tasks(tasks, <<"m", "i", "l", "k">>)) = 1
    /\ search_tasks(tasks, <<"m", "i", "l", "k">>)[1].title = BuyMilk
    /\ Len(search_tasks(tasks, <<"D", "O", "G">>)) = 1
    /\ search_tasks(tasks, <<"D", "O", "G">>)[1].title = WalkDog

\* C16: listByPriority(p) returns exactly the records whose priority equals p
\* by case-sensitive exact match, completed or not, in insertion order.
C16_ByPriority ==
    \A p \in PriorityQueries :
       get_tasks_by_priority(tasks, p) =
         SubseqAt(tasks, { i \in 1..Len(tasks) : tasks[i].priority = p })

\* C16 witness: a completed Low record is returned for Low, and "high"
\* returns nothing from a store that holds a High record
C16_Witness ==
    /\ mgr = "ready"
    /\ \E i \in 1..Len(tasks) : tasks[i].priority = "High"
    /\ get_tasks_by_priority(tasks, "high") = <<>>
    /\ Len(get_tasks_by_priority(tasks, "Low")) = 1
    /\ get_tasks_by_priority(tasks, "Low")[1].completed

\* the position of the first record of ts with the id, 0 if there is none
FirstWithId(ts, task_id) ==
    IF Held(ts, task_id)
    THEN CHOOSE i \in 1..Len(ts) :
           ts[i].id = task_id /\ \A j \in 1..(i - 1) : ts[j].id # task_id
    ELSE 0

\* C17: update changes a record only through the keys title, description,
\* priority and due_date; any other key (completed, id, created_at, to_dict,
\* an unknown name) changes no field of the record and does not prevent the
\* persist that follows.
C17_ClosedUpdatableSet ==
    [][(ret'.op = "update_task" /\ Held(tasks, ret'.args.task_id))
        => LET m == FirstWithId(tasks, ret'.args.task_id)
           IN /\ Len(tasks') = Len(tasks)
              /\ \A a \in (DOMAIN tasks[m]) \ UpdatableFields : tasks'[m][a] = tasks[m][a]
              /\ (\A i \in 1..Len(tasks) : tasks[i].to_dict = Method)
                 => ret'.exc # "TypeError"]_vars

\* C18: add appends: the collection after add is the collection before it,
\* unchanged, followed by the one new record, which is the record returned;
\* the length grows by exactly 1.
C18_AddAppends ==
    [][ret'.op = "add_task"
        => /\ Len(tasks') = Len(tasks) + 1
           /\ SubSeq(tasks', 1, Len(tasks)) = tasks
           /\ LET new == tasks'[Len(tasks')]
              IN /\ new.title = ret'.args.title
                 /\ new.description = ret'.args.description
                 /\ new.priority = ret'.args.priority
                 /\ new.due_date = ret'.args.due_date
                 /\ new.addr \notin LiveAddrs(tasks)
                 /\ ret'.status = "returned" => ret'.obj = new.addr]_vars

\* C18 witness: add returned the record it appended to a store of one record
C18_Witness ==
    /\ ret.op = "add_task"
    /\ ret.status = "returned"
    /\ Len(tasks) = 2
    /\ ret.obj = tasks[2].addr
    /\ tasks[1].addr # ret.obj

\* ts without its k-th element
DropAt(ts, k) == SubSeq(ts, 1, k - 1) \o SubSeq(ts, k + 1, Len(ts))

\* C19: delete(id) on a store holding a record with that id returns true and
\* removes exactly the first record with that id; the length drops by 1 and
\* the other records keep their values and order.
C19_DeleteRemovesFirst ==
    [][(ret'.op = "delete_task" /\ Held(tasks, ret'.args.task_id))
        => /\ ret'.status = "returned" /\ ret'.val
           /\ Len(tasks') = Len(tasks) - 1
           /\ tasks' = DropAt(tasks, FirstWithId(tasks, ret'.args.task_id))]_vars

\* C20: complete(id) and uncomplete(id) on a held id change only the
\* completed flag of the matching record, to true respectively false; applied
\* again after it succeeded, each leaves the store and the file as they were;
\* uncomplete after complete leaves completed false.
C20_CompleteUncomplete ==
    [][(ret'.op \in {"complete_task", "uncomplete_task"} /\ Held(tasks, ret'.args.task_id))
        => LET m == FirstWithId(tasks, ret'.args.task_id)
           IN /\ tasks' = [tasks EXCEPT ![m].completed = (ret'.op = "complete_task")]
              /\ (ret.op = ret'.op /\ ret.args = ret'.args /\ ret.status = "returned" /\ ret.val)
                 => (tasks' = tasks /\ file' = file)
              /\ (ret.op = "complete_task" /\ ret'.op = "uncomplete_task"
                  /\ ret.args = ret'.args)
                 => tasks'[m].completed = FALSE]_vars

\* C21: when writing the file fails during add, update, delete, complete or
\* uncomplete, the in-memory collection is exactly what it was before the
\* operation began, and a file that held that collection still holds it.
C21_WriteFailureKeepsMemory ==
    [][ (ret'.op \in Mutators /\ ret'.exc = "OSError")
        => /\ tasks' = tasks
           /\ file = Serialize(tasks) => file' = Serialize(tasks') ]_vars

\* C22: search with the empty string as query returns every record of the
\* store, in insertion order, in every reachable store state.
C22_EmptyQueryFindsAll == search_tasks(tasks, Empty) = tasks

\* C22 witness: a store of two records, one of them with an empty
\* description, and the empty query returns both in order
C22_Witness ==
    /\ mgr = "ready"
    /\ Len(tasks) = 2
    /\ tasks[1].description = Empty
    /\ tasks[2].description # Empty
    /\ Len(search_tasks(tasks, Empty)) = 2
    /\ search_tasks(tasks, Empty)[1] = tasks[1]
    /\ search_tasks(tasks, Empty)[2] = tasks[2]

----------------------------------------------------------------------------
(* The queries as calls, and a caller that changes the lists they return *)

\* the identities of the elements of a list of Task objects
Identities(ts) == [i \in 1..Len(ts) |-> ts[i].addr]

\* a query that also saves the collection before it returns
QueryReturns_saving(op, args, h) ==
    /\ ret' = Result(op, args, "returned", "", TRUE, None)
    /\ held' = h
    /\ file' = save_tasks(tasks, file, "ok").file
    /\ UNCHANGED <<tasks, mgr>>

\* a query returns: the store, the file and the manager are not assigned
QueryReturns(op, args, h) ==
    /\ ret' = Result(op, args, "returned", "", TRUE, None)
    /\ held' = h
    /\ UNCHANGED <<tasks, file, mgr>>

\* get_all_tasks(include_completed): self.tasks itself (line 122), or a new
\* list of the Tasks not completed (line 123)
call_get_all_tasks(include_completed) ==
    /\ mgr = "ready"
    /\ Call
    /\ QueryReturns("get_all_tasks", [include_completed |-> include_completed],
                    IF include_completed
                    THEN [kind |-> "self.tasks", list |-> <<>>]
                    ELSE [kind |-> "list",
                          list |-> Identities(get_all_tasks(tasks, FALSE))])

call_get_tasks_by_priority(priority) ==
    /\ mgr = "ready"
    /\ Call
    /\ QueryReturns("get_tasks_by_priority", [priority |-> priority],
                    [kind |-> "list",
                     list |-> Identities(get_tasks_by_priority(tasks, priority))])

call_search_tasks(query) ==
    /\ mgr = "ready"
    /\ Call
    /\ QueryReturns("search_tasks", [query |-> query],
                    [kind |-> "list",
                     list |-> Identities(search_tasks(tasks, query))])

call_get_statistics ==
    /\ mgr = "ready"
    /\ Call
    /\ LET s == get_statistics(tasks)
       IN QueryReturns("get_statistics", [none |-> None],
                       [kind |-> "dict",
                        list |-> << s.total, s.completed, s.pending,
                                    s.priority_counts.High,
                                    s.priority_counts.Medium,
                                    s.priority_counts.Low >>])

\* the caller appends a Task it constructed to the list it holds; when that
\* list is self.tasks (get_all_tasks, line 122) it is the store's list
list_append(args, self_addr, now) ==
    /\ mgr = "ready"
    /\ Call
    /\ held.kind \in {"self.tasks", "list"}
    /\ self_addr \notin LiveAddrs(tasks) \cup HeldAddrs(held)
    /\ LET task == Task(self_addr, args.title, args.description, args.priority,
                        args.due_date, None, now)
       IN IF held.kind = "self.tasks"
          THEN /\ Len(tasks) < MaxTasks
               /\ tasks' = Append(tasks, task)
               /\ UNCHANGED held
          ELSE /\ Len(held.list) < MaxTasks
               /\ held' = [held EXCEPT !.list = Append(@, self_addr)]
               /\ UNCHANGED tasks
    /\ ret' = Result("list.append", args, "returned", "", TRUE, self_addr)
    /\ UNCHANGED <<file, mgr>>

\* the caller removes the first element of the list it holds: pop(0)
list_pop ==
    /\ mgr = "ready"
    /\ Call
    /\ \/ /\ held.kind = "self.tasks"
          /\ tasks # <<>>
          /\ tasks' = Tail(tasks)
          /\ UNCHANGED held
       \/ /\ held.kind = "list"
          /\ held.list # <<>>
          /\ held' = [held EXCEPT !.list = Tail(@)]
          /\ UNCHANGED tasks
    /\ ret' = Result("list.pop", [index |-> 0], "returned", "", TRUE, None)
    /\ UNCHANGED <<file, mgr>>

\* the sessions in which the caller also queries and changes what it got
NextViews ==
    \/ Next
    \/ \E b \in BOOLEAN : call_get_all_tasks(b)
    \/ \E priority \in PriorityQueries : call_get_tasks_by_priority(priority)
    \/ \E query \in Queries : call_search_tasks(query)
    \/ call_get_statistics
    \/ \E args \in AddArgs, a \in Addr : list_append(args, a, Now(calls))
    \/ list_pop

SpecViews == Init /\ [][NextViews]_vars

\* C23: appending to, or removing an element from, the list returned by
\* get_all_tasks (either value of include_completed), get_tasks_by_priority
\* or search_tasks changes neither the store's collection nor what a later
\* save writes.
C23_QueriesReturnReadViews ==
    [][ ret'.op \in {"list.append", "list.pop"}
        => /\ tasks' = tasks
           /\ save_tasks(tasks', file', "ok") = save_tasks(tasks, file, "ok") ]_vars

\* the sum of the three priority counts of the statistics s
InBuckets(s) ==
    s.priority_counts.High + s.priority_counts.Medium + s.priority_counts.Low

\* C24: in every reachable store state the statistics satisfy
\* completed + pending = total and High + Medium + Low <= pending, with
\* equality exactly when every record not completed has a priority among
\* High, Medium and Low.
C24_StatisticsArithmetic ==
    LET s == get_statistics(tasks)
    IN /\ s.completed + s.pending = s.total
       /\ InBuckets(s) <= s.pending
       /\ InBuckets(s) = s.pending
            <=> \A i \in 1..Len(tasks) :
                   ~tasks[i].completed => tasks[i].priority \in {"High", "Medium", "Low"}

\* C24 witness: a completed record and a pending record of priority
\* "urgent", so that the three counts sum to less than pending
C24_Witness ==
    /\ mgr = "ready"
    /\ \E i, j \in 1..Len(tasks) :
          /\ tasks[i].completed
          /\ ~tasks[j].completed
          /\ tasks[j].priority = "urgent"
    /\ get_statistics(tasks).completed > 0
    /\ InBuckets(get_statistics(tasks)) < get_statistics(tasks).pending

\* the operations that are queries
QueryOps ==
    {"get_task", "get_all_tasks", "get_tasks_by_priority", "search_tasks", "get_statistics"}

\* C25: get_task, get_all_tasks, get_tasks_by_priority, search_tasks and
\* get_statistics leave the in-memory collection (records, order, every
\* field) and the content of the backing file unchanged, wherever they are
\* interleaved in a sequence of mutations.
C25_QueriesReadOnly ==
    [][ ret'.op \in QueryOps => tasks' = tasks /\ file' = file ]_vars

\* C25 witness: after a mutation that saved a store of two records (the
\* file holds what the store holds), a search has returned one of them
C25_Witness ==
    /\ mgr = "ready"
    /\ ret.op = "search_tasks"
    /\ held.kind = "list"
    /\ Len(held.list) = 1
    /\ Len(tasks) = 2
    /\ file = Serialize(tasks)

====
